---- MODULE Spec2Model ----
(***************************************************************************)
(* Streaming Content Analyzer (app.py): a Streamlit script that is run     *)
(* top to bottom once per user interaction.  One run ("interaction pass")  *)
(* loads data.csv through a process-wide cache, builds the sidebar         *)
(* widgets, filters the table, computes the aggregation views and offers   *)
(* the filtered subset as CSV through a second cache.                      *)
(*                                                                         *)
(* Optional values are sequences of length 0 (absent) or 1 (present).      *)
(* Text whose characters matter (the Genre(s) field) is a sequence of      *)
(* one-character strings.                                                  *)
(***************************************************************************)
EXTENDS Integers, Sequences, FiniteSets, TLC

\* ------------------------------------------------------------------ bounds
\* Largest number of data rows in data.csv.
MaxRows == 2

\* ------------------------------------------------------------ input domains
Types == {"Movie", "TV Show"}
Years == 2000..2001
Ratings == {4}
\* Two genre names, one of which is a substring of the other
\* (as "Drama" is of "Docudrama").
GenreTokens == {<<"a">>, <<"a", "b">>}
\* Year cells of the file: the decimal text of a year, or a non-numeric cell.
YearCells == {ToString(y) : y \in Years} \cup {"n/a"}

\* ------------------------------------------------------------ text helpers
\* The delimiter the code splits Genre(s) on: ', '.
Delim == <<",", " ">>

\* Index of the first occurrence of sep in x at or after position i, 0 if none.
RECURSIVE FindFrom(_, _, _)
FindFrom(x, sep, i) ==
    IF i + Len(sep) - 1 > Len(x) THEN 0
    ELSE IF SubSeq(x, i, i + Len(sep) - 1) = sep THEN i
    ELSE FindFrom(x, sep, i + 1)

\* Python str.split(sep): the pieces of x between occurrences of sep.
RECURSIVE split(_, _)
split(x, sep) ==
    LET i == FindFrom(x, sep, 1)
    IN IF i = 0 THEN <<x>>
       ELSE <<SubSeq(x, 1, i - 1)>> \o split(SubSeq(x, i + Len(sep), Len(x)), sep)

\* Python 'g in x' on strings: g occurs in x as a contiguous substring.
str_contains(g, x) == FindFrom(x, g, 1) # 0

\* ', '.join(tokens)
RECURSIVE join(_)
join(toks) ==
    IF Len(toks) = 0 THEN <<>>
    ELSE IF Len(toks) = 1 THEN toks[1]
    ELSE toks[1] \o Delim \o join(Tail(toks))

\* Genre(s) cells of the file: a single genre name, or a genre name followed
\* by ', a' (so a record may list two genres, or the same genre twice).
GenreFields ==
    {join(<<t>>) : t \in GenreTokens}
        \cup {join(<<t, u>>) : t \in GenreTokens, u \in {<<"a">>}}

Range(s) == {s[i] : i \in 1..Len(s)}

\* ------------------------------------------------------------- the data file
\* Columns of data.csv, in file order.
Columns == <<"Type", "Year", "Genre(s)", "Rating (Out of 5)">>

FileRows ==
    [Type : Types, Year : YearCells, Genres : GenreFields, Rating : Ratings]

\* Contents data.csv can have: absent, or a header and up to MaxRows rows.
Files ==
    {[exists |-> FALSE, rows |-> <<>>]}
        \cup {[exists |-> TRUE, rows |-> r] :
                r \in UNION {[1..n -> FileRows] : n \in 0..MaxRows}}

\* pandas DataFrame: column labels and rows; each row keeps its index label.
EmptyFrame == [columns |-> <<>>, rows |-> <<>>]

\* int(text) for the year texts of the model.
Coercible(cell) == \E y \in Years : ToString(y) = cell
astype_int(cell) == CHOOSE y \in Years : ToString(y) = cell

\* pd.read_csv followed by df['Year'].astype(int): rows get the index labels
\* 0..n-1 and Year becomes an integer.
read_csv(f) ==
    [columns |-> Columns,
     rows |-> [i \in 1..Len(f.rows) |->
                 [index |-> i - 1,
                  Type |-> f.rows[i].Type,
                  Year |-> astype_int(f.rows[i].Year),
                  Genres |-> f.rows[i].Genres,
                  Rating |-> f.rows[i].Rating]]]

\* The try block of load_data raises: the file is missing, or a Year cell is
\* not an integer.
LoadRaises(f) ==
    \/ ~f.exists
    \/ \E i \in 1..Len(f.rows) : ~Coercible(f.rows[i].Year)

\* Body of load_data (uncached): the table, or on any exception an st.error
\* message and an empty DataFrame.
load_data_body(f) ==
    IF LoadRaises(f)
    THEN [df |-> EmptyFrame, error |-> TRUE]
    ELSE [df |-> read_csv(f), error |-> FALSE]

\* @st.cache_data on load_data(): a hit when an entry for the (argument-less)
\* call exists.
LoadCacheHitNoCache(cache) == FALSE
LoadCacheHit(cache) == cache # <<>>

\* ------------------------------------------------------- pandas operations
\* df[mask]: the rows whose mask is true, in order, index labels kept.
RECURSIVE select_rows_reversed(_, _)
select_rows_reversed(rows, mask) ==
    IF rows = <<>> THEN <<>>
    ELSE select_rows_reversed(Tail(rows), Tail(mask))
            \o (IF Head(mask) THEN <<Head(rows)>> ELSE <<>>)

RECURSIVE select_rows(_, _)
select_rows(rows, mask) ==
    IF rows = <<>> THEN <<>>
    ELSE (IF Head(mask) THEN <<Head(rows)>> ELSE <<>>)
            \o select_rows(Tail(rows), Tail(mask))

\* Series.isin(values)
isin(v, values) == v \in values

\* Series.between(left, right), inclusive="both" by default.
betweenExclusive(v, left, right) == left < v /\ v < right
between(v, left, right) == left <= v /\ v <= right

\* df["Type"].unique()
type_options(d) == {d.rows[i].Type : i \in 1..Len(d.rows)}

\* df['Genre(s)'].str.split(', ', expand=True).stack(): the tokens of all
\* rows, row by row.
RECURSIVE stack_tokens(_)
stack_tokens(rows) ==
    IF rows = <<>> THEN <<>>
    ELSE split(Head(rows).Genres, Delim) \o stack_tokens(Tail(rows))

\* ... .unique()
genre_options_of(d) == Range(stack_tokens(d.rows))

year_values(d) == {d.rows[i].Year : i \in 1..Len(d.rows)}
SetMin(S) == CHOOSE m \in S : \A x \in S : m <= x
SetMax(S) == CHOOSE m \in S : \A x \in S : x <= m

\* default= of the Content Type multiselect: every distinct Type.
default_types(d) == type_options(d)

\* value= of the slider: (int(df["Year"].min()), int(df["Year"].max())).
default_year_range(d) == <<SetMin(year_values(d)), SetMax(year_values(d))>>

\* ------------------------------------------------------------ apply_filters
\* The lambda of the genre mask: any(genre in x for genre in genre_filter).
genre_mask(x, gf) == \E g \in gf : str_contains(g, x)

\* filtered = df[df["Type"].isin(type_filter)]
TypeStepAllWhenEmpty(rows, tf) ==
    IF tf = {} THEN rows
    ELSE select_rows(rows, [i \in 1..Len(rows) |-> isin(rows[i].Type, tf)])
TypeStep(rows, tf) ==
    select_rows(rows, [i \in 1..Len(rows) |-> isin(rows[i].Type, tf)])

\* filtered = filtered[filtered["Year"].between(year_range[0], year_range[1])]
YearStepHalfOpen(rows, yr) ==
    select_rows(rows, [i \in 1..Len(rows) |-> yr[1] <= rows[i].Year /\ rows[i].Year < yr[2]])
YearStep(rows, yr) ==
    select_rows(rows, [i \in 1..Len(rows) |-> between(rows[i].Year, yr[1], yr[2])])

\* if genre_filter: filtered = filtered[genre_mask]
GenreStep(rows, gf) ==
    IF gf # {}
    THEN select_rows(rows, [i \in 1..Len(rows) |-> genre_mask(rows[i].Genres, gf)])
    ELSE rows

apply_filters(d, tf, gf, yr) ==
    [columns |-> d.columns,
     rows |-> GenreStep(YearStep(TypeStep(d.rows, tf), yr), gf)]

\* DataFrame.empty
empty(d) == Len(d.rows) = 0 \/ Len(d.columns) = 0

\* ------------------------------------------------------- aggregation views
RECURSIVE SumRating(_)
SumRating(rows) ==
    IF rows = <<>> THEN 0 ELSE Head(rows).Rating + SumRating(Tail(rows))

CountWhere(rows, mask) == Len(select_rows(rows, mask))

\* Key Metrics: row count, mean rating (kept as sum over count), movies, shows.
headline_metrics(d) ==
    [Total |-> Len(d.rows),
     RatingSum |-> SumRating(d.rows),
     Movies |-> CountWhere(d.rows, [i \in 1..Len(d.rows) |-> d.rows[i].Type = "Movie"]),
     TVShows |-> CountWhere(d.rows, [i \in 1..Len(d.rows) |-> d.rows[i].Type = "TV Show"])]

\* The years of a set in ascending order.
RECURSIVE Ascending(_)
Ascending(S) ==
    IF S = {} THEN <<>> ELSE <<SetMin(S)>> \o Ascending(S \ {SetMin(S)})

\* filtered_df.groupby('Year').agg(mean, count).reset_index(): one entry per
\* year present, ascending by year.
yearly_rollup(d) ==
    LET ys == Ascending(year_values(d))
    IN [k \in 1..Len(ys) |->
          LET g == select_rows(d.rows, [i \in 1..Len(d.rows) |-> d.rows[i].Year = ys[k]])
          IN [Year |-> ys[k], RatingSum |-> SumRating(g), Count |-> Len(g)]]

\* Number of positions of a sequence that hold v.
Occurrences(s, v) == Cardinality({i \in 1..Len(s) : s[i] = v})

\* Series.value_counts(): one (value, count) entry per distinct value, counts
\* descending.  The order among equal counts is left to the sort, so every
\* descending order is a possible result.
value_counts_ascending(s) ==
    LET E == {[Genre |-> v, Count |-> Occurrences(s, v)] : v \in Range(s)}
        n == Cardinality(E)
    IN {o \in [1..n -> E] :
          /\ \A i, j \in 1..n : i # j => o[i] # o[j]
          /\ \A i, j \in 1..n : i < j => o[i].Count <= o[j].Count}
value_counts(s) ==
    LET E == {[Genre |-> v, Count |-> Occurrences(s, v)] : v \in Range(s)}
        n == Cardinality(E)
    IN {o \in [1..n -> E] :
          /\ \A i, j \in 1..n : i # j => o[i] # o[j]
          /\ \A i, j \in 1..n : i < j => o[i].Count >= o[j].Count}

\* Genre Analysis: tokens of the subset, then value_counts.
genre_rollup(d) == value_counts(stack_tokens(d.rows))

\* --------------------------------------------------------------- CSV export
\* csv quoting (QUOTE_MINIMAL): a cell holding the delimiter is quoted.
csv_cell(x) == IF "," \in Range(x) THEN <<"\"">> \o x \o <<"\"">> ELSE x

\* df.to_csv(index=False): the header line, then one line per row with the
\* cells in column order; the index labels are not written.
to_csv(d) ==
    <<d.columns>> \o
        [i \in 1..Len(d.rows) |->
            <<d.rows[i].Type, ToString(d.rows[i].Year),
              csv_cell(d.rows[i].Genres), ToString(d.rows[i].Rating)>>]

\* @st.cache_data on convert_df(df): the entry is keyed by the content of the
\* argument (index labels and values).
CacheKeyShape(d) == <<Len(d.rows), Len(d.columns)>>
CacheKey(d) == d

\* convert_df through its cache: the stored bytes on a hit, else the body.
convert_df(cache, d) ==
    IF CacheKey(d) \in DOMAIN cache THEN cache[CacheKey(d)] ELSE to_csv(d)

CacheWith(cache, d, bytes) ==
    [k \in DOMAIN cache \cup {CacheKey(d)} |->
        IF k = CacheKey(d) THEN bytes ELSE cache[k]]

\* -------------------------------------------------------------------- state
VARIABLES
    file,           \* data.csv on disk
    load_cache,     \* cache of load_data: <<>> or <<its result>>
    reads,          \* number of times the body of load_data has run
    df,             \* the Content Table of the current pass
    load_error,     \* st.error("Error loading data") is shown
    outcome,        \* "not_run", "rendered", or the uncaught exception
    type_filter,    \* value of the Content Type multiselect
    genre_filter,   \* value of the Genres multiselect
    year_range,     \* value of the year slider: <<lo, hi>>, <<>> if not built
    filtered_df,    \* <<>> or <<the Filtered Subset>>
    warning,        \* st.warning("No data available ...") is shown
    key_metrics,    \* <<>> or <<headline metrics>>
    yearly_data,    \* <<>> or <<per-year rollup>>
    genre_counts,   \* <<>> or <<genre rollup>>
    csv,            \* <<>> or <<bytes offered by the download button>>
    convert_cache   \* cache of convert_df: key -> bytes

vars == <<file, load_cache, reads, df, load_error, outcome, type_filter,
          genre_filter, year_range, filtered_df, warning, key_metrics,
          yearly_data, genre_counts, csv, convert_cache>>

EmptyCache == [k \in {} |-> <<>>]

Init ==
    /\ file \in Files
    /\ load_cache = <<>>
    /\ reads = 0
    /\ df = EmptyFrame
    /\ load_error = FALSE
    /\ outcome = "not_run"
    /\ type_filter = {}
    /\ genre_filter = {}
    /\ year_range = <<>>
    /\ filtered_df = <<>>
    /\ warning = FALSE
    /\ key_metrics = <<>>
    /\ yearly_data = <<>>
    /\ genre_counts = <<>>
    /\ csv = <<>>
    /\ convert_cache = EmptyCache

\* The script stops at an uncaught exception: nothing below it is computed.
Stopped(exc) ==
    /\ outcome' = exc
    /\ year_range' = <<>>
    /\ filtered_df' = <<>>
    /\ warning' = FALSE
    /\ key_metrics' = <<>>
    /\ yearly_data' = <<>>
    /\ genre_counts' = <<>>
    /\ csv' = <<>>
    /\ UNCHANGED <<type_filter, genre_filter, convert_cache>>

\* Lines 69-213 with the widget values tf, gf, yr.
Render(d, tf, gf, yr) ==
    LET f == apply_filters(d, tf, gf, yr)
    IN /\ outcome' = "rendered"
       /\ type_filter' = tf
       /\ genre_filter' = gf
       /\ year_range' = yr
       /\ filtered_df' = <<f>>
       /\ IF ~empty(f)
          THEN /\ key_metrics' = <<headline_metrics(f)>>
               /\ warning' = FALSE
          ELSE /\ key_metrics' = <<>>
               /\ warning' = TRUE
       /\ yearly_data' = <<yearly_rollup(f)>>
       /\ IF ~empty(f)
          THEN \E o \in genre_rollup(f) : genre_counts' = <<o>>
          ELSE genre_counts' = <<>>
       /\ IF ~empty(f)
          THEN /\ csv' = <<convert_df(convert_cache, f)>>
               /\ convert_cache' = CacheWith(convert_cache, f, convert_df(convert_cache, f))
          ELSE /\ csv' = <<>>
               /\ UNCHANGED convert_cache

\* One run of the script.  first: the widgets take their defaults; otherwise
\* they hold the values tf, gf, yr of the session.
Pass(first, tf, gf, yr) ==
    LET hit == LoadCacheHit(load_cache)
        res == IF hit THEN load_cache[1] ELSE load_data_body(file)
        d == res.df
    IN /\ load_cache' = <<res>>
       /\ reads' = IF hit THEN reads ELSE reads + 1
       /\ df' = d
       /\ load_error' = res.error
       /\ UNCHANGED file
       /\ IF "Type" \notin Range(d.columns)
          THEN Stopped("KeyError")          \* df["Type"], line 47
          ELSE IF year_values(d) = {}
          THEN Stopped("ValueError")        \* int(df["Year"].min()), line 62
          ELSE IF first
          THEN Render(d, default_types(d), {}, default_year_range(d))
          ELSE Render(d, tf, gf, yr)

\* The first run of a session.
FirstRun ==
    /\ outcome = "not_run"
    /\ Pass(TRUE, {}, {}, <<>>)

\* The user changes the Content Type multiselect.
ChangeType ==
    /\ outcome = "rendered"
    /\ \E S \in SUBSET type_options(df) :
          /\ S # type_filter
          /\ Pass(FALSE, S, genre_filter, year_range)

\* The user changes the Genres multiselect.
ChangeGenre ==
    /\ outcome = "rendered"
    /\ \E S \in SUBSET genre_options_of(df) :
          /\ S # genre_filter
          /\ Pass(FALSE, type_filter, S, year_range)

\* The user moves the year slider.
ChangeYear ==
    /\ outcome = "rendered"
    /\ \E lo, hi \in SetMin(year_values(df))..SetMax(year_values(df)) :
          /\ lo <= hi
          /\ <<lo, hi>> # year_range
          /\ Pass(FALSE, type_filter, genre_filter, <<lo, hi>>)

\* A rerun with the widgets untouched.
Rerun ==
    /\ outcome # "not_run"
    /\ Pass(outcome # "rendered", type_filter, genre_filter, year_range)

\* data.csv is removed from disk while the process runs.
DeleteFile ==
    /\ file.exists
    /\ file' = [exists |-> FALSE, rows |-> <<>>]
    /\ UNCHANGED <<load_cache, reads, df, load_error, outcome, type_filter,
                   genre_filter, year_range, filtered_df, warning, key_metrics,
                   yearly_data, genre_counts, csv, convert_cache>>

Next ==
    \/ FirstRun
    \/ ChangeType
    \/ ChangeGenre
    \/ ChangeYear
    \/ Rerun
    \/ DeleteFile

Spec == Init /\ [][Next]_vars

\* The script body from apply_filters on as a function of its inputs: any
\* loaded table, any widget values.
Tables == {read_csv(f) : f \in {g \in Files : g.exists /\ ~LoadRaises(g)}}

InitBody ==
    /\ file = [exists |-> FALSE, rows |-> <<>>]
    /\ load_cache = <<>>
    /\ reads = 0
    /\ df \in Tables
    /\ load_error = FALSE
    /\ outcome = "not_run"
    /\ type_filter = {}
    /\ genre_filter = {}
    /\ year_range = <<>>
    /\ filtered_df = <<>>
    /\ warning = FALSE
    /\ key_metrics = <<>>
    /\ yearly_data = <<>>
    /\ genre_counts = <<>>
    /\ csv = <<>>
    /\ convert_cache = EmptyCache

RenderAny ==
    /\ outcome = "not_run"
    /\ \E tf \in SUBSET Types, gf \in SUBSET GenreTokens, lo, hi \in Years :
          /\ lo <= hi
          /\ Render(df, tf, gf, <<lo, hi>>)
    /\ UNCHANGED <<file, load_cache, reads, df, load_error>>

SpecBody == InitBody /\ [][RenderAny]_vars

\* ------------------------------------------------------------------- claims
Rendered == outcome = "rendered"
Subset == filtered_df[1]

\* The tokens of a Genre(s) field.
TokensOf(x) == Range(split(x, Delim))

\* The row passes the type and year steps for the current widget values.
PassesTypeAndYear(r) ==
    /\ r.Type \in type_filter
    /\ year_range[1] <= r.Year
    /\ r.Year <= year_range[2]

\* C1: with a non-empty genre selection, a record that passes the type and
\* year steps is kept iff one of its ', '-separated tokens equals a selected
\* genre; with no genre selected the genre step removes nothing.
C1_GenreExactTokenMatch ==
    Rendered =>
        \A r \in Range(df.rows) :
            PassesTypeAndYear(r) =>
                (r \in Range(Subset.rows)
                    <=> (genre_filter = {}
                            \/ \E g \in genre_filter : g \in TokensOf(r.Genres)))

\* C2: a pass over an empty Content Table (load failure or no rows) does not
\* end in an error: a load failure is reported, and the pass reaches the
\* "no data" state.
C2_EmptyTablePassReachesNoData ==
    (outcome # "not_run" /\ df.rows = <<>>) =>
        /\ df.columns = <<>> => load_error
        /\ outcome = "rendered"
        /\ warning

\* C3: in a pass whose Filtered Subset is empty, "no data" is reported and
\* neither the headline metrics, nor the per-year rollup, nor the genre
\* rollup is computed.
C3_EmptySubsetSkipsAllViews ==
    (Rendered /\ empty(Subset)) =>
        /\ warning
        /\ key_metrics = <<>>
        /\ yearly_data = <<>>
        /\ genre_counts = <<>>

\* s can be obtained from t by deleting elements: same relative order.
IsSubsequence(s, t) ==
    \E p \in [1..Len(s) -> 1..Len(t)] :
        /\ \A i, j \in 1..Len(s) : i < j => p[i] < p[j]
        /\ \A i \in 1..Len(s) : s[i] = t[p[i]]

C5_EmptyTypeSelectionMatchesNothing ==
    (Rendered /\ type_filter = {}) => Subset.rows = <<>>

C5_Witness ==
    /\ Rendered
    /\ type_filter = {}
    /\ Len(df.rows) >= 2
    /\ year_range = default_year_range(df)

\* C6: a record that passes the type and genre predicates is in the Filtered
\* Subset iff minYear <= Year <= maxYear.
C6_YearFilterInclusive ==
    Rendered =>
        \A r \in Range(df.rows) :
            (r.Type \in type_filter
                /\ (genre_filter = {} \/ genre_mask(r.Genres, genre_filter)))
            => (r \in Range(Subset.rows)
                    <=> (year_range[1] <= r.Year /\ r.Year <= year_range[2]))

\* A record on the upper bound is kept and a record one year above is dropped.
C6_Witness ==
    /\ Rendered
    /\ \E r \in Range(Subset.rows) : r.Year = year_range[2]
    /\ \E r \in Range(df.rows) :
          /\ r.Type \in type_filter
          /\ r.Year = year_range[2] + 1
          /\ r \notin Range(Subset.rows)

\* C7: the body of load_data runs at most once per process; once its result
\* is cached every pass gets that same table, whatever happens to the file.
C7_LoadedOnce ==
    [][/\ reads' <= 1
       /\ load_cache # <<>> =>
            /\ load_cache' = load_cache
            /\ reads' = reads
            /\ df' = load_cache[1].df]_vars

\* A later pass (the widgets no longer hold their defaults) over a table whose
\* file is gone.
C7_Witness ==
    /\ Rendered
    /\ reads = 1
    /\ ~file.exists
    /\ df.rows # <<>>
    /\ type_filter # default_types(df)

RecordsContaining(rows, g) ==
    Cardinality({i \in 1..Len(rows) : g \in TokensOf(rows[i].Genres)})

\* Number of times g occurs in the split Genre(s) fields of the rows.
RECURSIVE TokenOccurrences(_, _)
TokenOccurrences(rows, g) ==
    IF rows = <<>> THEN 0
    ELSE Occurrences(split(Head(rows).Genres, Delim), g)
            + TokenOccurrences(Tail(rows), g)

SubsetTokens == UNION {TokensOf(Subset.rows[i].Genres) : i \in 1..Len(Subset.rows)}

RollupShape(o) ==
    /\ Len(o) = Cardinality(SubsetTokens)
    /\ {o[i].Genre : i \in 1..Len(o)} = SubsetTokens
    /\ \A i, j \in 1..Len(o) : i < j => o[i].Count >= o[j].Count

\* C9 as stated: one entry per distinct token, counts descending, and the
\* count of a token is the number of subset records whose split field
\* contains it.
C9_CountIsNumberOfRecords ==
    (Rendered /\ ~empty(Subset)) =>
        /\ genre_counts # <<>>
        /\ RollupShape(genre_counts[1])
        /\ \A i \in 1..Len(genre_counts[1]) :
              genre_counts[1][i].Count
                  = RecordsContaining(Subset.rows, genre_counts[1][i].Genre)

\* C9 as amended: one entry per distinct token, counts descending, and the
\* count of a token is the number of times it occurs in the split fields of
\* the subset's records (a record that lists a genre twice counts twice).
C9_CountIsNumberOfOccurrences ==
    (Rendered /\ ~empty(Subset)) =>
        /\ genre_counts # <<>>
        /\ RollupShape(genre_counts[1])
        /\ \A i \in 1..Len(genre_counts[1]) :
              genre_counts[1][i].Count
                  = TokenOccurrences(Subset.rows, genre_counts[1][i].Genre)

\* Two genres with different counts, one of them listed twice by a record.
C9_Witness ==
    /\ Rendered
    /\ genre_counts # <<>>
    /\ Len(genre_counts[1]) = 2
    /\ genre_counts[1][1].Count > genre_counts[1][2].Count
    /\ \E i \in 1..2 :
          genre_counts[1][i].Count
              > RecordsContaining(Subset.rows, genre_counts[1][i].Genre)

\* C10: with the default control values (all distinct types, no genre, the
\* table's [min Year, max Year]) the Filtered Subset of a non-empty table is
\* the whole Content Table, rows in source order.
C10_DefaultsKeepWholeTable ==
    (/\ Rendered
     /\ df.rows # <<>>
     /\ type_filter = default_types(df)
     /\ genre_filter = {}
     /\ year_range = default_year_range(df))
    => filtered_df = <<df>>

\* The defaults over a table of two rows that differ in type and year.
C10_Witness ==
    /\ Rendered
    /\ Len(df.rows) = 2
    /\ df.rows[1].Type # df.rows[2].Type
    /\ df.rows[1].Year # df.rows[2].Year
    /\ type_filter = default_types(df)
    /\ genre_filter = {}
    /\ year_range = default_year_range(df)
    /\ filtered_df = <<df>>

====
